---- MODULE Spec2Model ----
(***************************************************************************)
(* Model of the email digest pipeline: EmailFetcher (IMAP and Gmail API    *)
(* variants), EmailSummarizer, EmailComposer.create_digest_report and the  *)
(* two orchestrator entry points of EmailDigestApp.                        *)
(*                                                                         *)
(* External collaborators (the IMAP server, the Gmail API, the OpenAI      *)
(* completion call, SMTP) are the environment: every action draws their    *)
(* answers from bounded sets.  Message identifiers are 1..M in the order   *)
(* the server lists them (IMAP sequence numbers, oldest first).  A date is *)
(* a point on one time line, 1..MaxDate.                                   *)
(***************************************************************************)
EXTENDS Integers, Sequences, FiniteSets, TLC

\* ---- bounds of the model ------------------------------------------------
MaxMatched == 2     \* most identifiers a search / listing returns
MaxDate == 2        \* dates are 1..MaxDate
MaxBytes == 2       \* longest byte string handed to _decode_text
MaxParts == 2       \* most MIME parts of one message

VARIABLES
    use_api,                \* EmailFetcher.use_api
    max_emails_per_digest,  \* Config.max_emails_per_digest
    pc,                     \* position of the orchestrator in the current run
    period,                 \* "morning" / "evening" ("none" while idle)
    emails,                 \* result of fetcher.fetch_emails
    summaries,              \* result of summarizer.summarize_emails
    digest,                 \* result of composer.create_digest_report
    success,                \* result of composer.send_email ("none" before)
    mail,                   \* the IMAP connection of the fetch call
    matched,                \* identifiers the search / listing returned
    attempted,              \* identifiers whose detail fetch was attempted
    skipped,                \* identifiers skipped by a per-message failure
    fault,                  \* batch-level failure of the fetch call
    failed,                 \* message ids whose summarize_email call raised
    calls,                  \* how often each stage was invoked in this run
    raised,                 \* phases in which some exception was raised
    escaped,                \* phase whose exception reached the run's handler
    propagated,             \* an exception left process_*_digest
    call,                   \* one isolated summarize_email call (SpecUnit)
    html,                   \* the sections format_html_email rendered
    dec,                    \* one isolated _decode_text call (SpecDecode)
    norm                    \* one isolated message of the IMAP loop (SpecNormalize)

vars == <<use_api, max_emails_per_digest, pc, period, emails, summaries,
          digest, success, mail, matched, attempted, skipped, fault, failed,
          calls, raised, escaped, propagated, call, html, dec, norm>>

\* ---- helpers --------------------------------------------------------------
Min(a, b) == IF a <= b THEN a ELSE b

Range(s) == {s[i] : i \in 1..Len(s)}

Ids(n) == [i \in 1..n |-> i]

\* Python's s[-k:] for k >= 0: -0 is 0, so s[-0:] is the whole list.
TakeLast(s, k) == IF k = 0 THEN s ELSE SubSeq(s, Len(s) - Min(k, Len(s)) + 1, Len(s))

TakeFirst(s, k) == SubSeq(s, 1, Min(k, Len(s)))

\* ---- models.py ------------------------------------------------------------
\* EmailMessage, reduced to the fields the pipeline's logic reads.
EmailMessage(id, d) == [message_id |-> id, date |-> d]

Dates == 1..MaxDate

\* Config.max_emails_per_digest: the default, and caps small enough to cut
\* a search result of the model.
DefaultCap == 50

Caps == {0, 1, 2, DefaultCap}

\* EmailSummary.  key_points / action_items are kept by their origin:
\* "resp" (the list in the response), "empty" ([]), "failed"
\* (["Failed to parse email content"]).
EmailSummary(id, d, p, kp, ai) ==
    [message_id |-> id, date |-> d, priority |-> p, key_points |-> kp, action_items |-> ai]

NoSummary == EmailSummary(0, 0, "none", "none", "none")

NoDigest == [period |-> "none", email_count |-> 0, high_priority_count |-> 0,
             summaries |-> <<>>, built |-> FALSE]

\* ---- email_fetcher.py -------------------------------------------------------
\* Outcome of one message of the IMAP loop: "ok" (appended), "NO" (status
\* other than OK), "notuple" (no tuple in the response), "raise" (mail.fetch
\* or the processing of the message raises).
ImapOutcomes == {"ok", "NO", "notuple", "raise"}

ApiOutcomes == {"ok", "raise"}

\* What the IMAP server does in one fetch call: whether IMAP4_SSL(), login
\* and select succeed, what search answers, and for each of the n matched
\* identifiers the outcome of its fetch and the Date of the message.
ImapScenario(c, l, s, q, k, o, d, cl) ==
    [connect |-> c, login |-> l, select |-> s, search |-> q, n |-> k,
     outcome |-> o, date |-> d, close |-> cl]

ImapScenarios ==
    {ImapScenario(FALSE, FALSE, FALSE, "raise", 0, <<>>, <<>>, FALSE),
     ImapScenario(TRUE, FALSE, FALSE, "raise", 0, <<>>, <<>>, FALSE),
     ImapScenario(TRUE, TRUE, FALSE, "raise", 0, <<>>, <<>>, FALSE),
     ImapScenario(TRUE, TRUE, TRUE, "raise", 0, <<>>, <<>>, FALSE),
     ImapScenario(TRUE, TRUE, TRUE, "NO", 0, <<>>, <<>>, FALSE)}
    \cup
    UNION {{ImapScenario(TRUE, TRUE, TRUE, "OK", k, o, d, cl) :
                o \in [1..k -> ImapOutcomes], d \in [1..k -> Dates], cl \in BOOLEAN} :
           k \in 0..MaxMatched}

\* What the Gmail API does in one fetch call: whether the service was set
\* up, whether messages().list() succeeds, and per listed message the
\* outcome of its detail fetch and processing.
ApiScenario(sv, ls, k, o, d) ==
    [service |-> sv, list |-> ls, n |-> k, outcome |-> o, date |-> d]

ApiScenarios ==
    {ApiScenario(FALSE, FALSE, 0, <<>>, <<>>), ApiScenario(TRUE, FALSE, 0, <<>>, <<>>)}
    \cup
    UNION {{ApiScenario(TRUE, TRUE, k, o, d) :
                o \in [1..k -> ApiOutcomes], d \in [1..k -> Dates]} :
           k \in 0..MaxMatched}

\* email_ids[-min(len(email_ids), max_emails_per_digest):]
CapIds_First(email_ids, cap) == TakeFirst(email_ids, Min(Len(email_ids), cap))

CapIds(email_ids, cap) == TakeLast(email_ids, Min(Len(email_ids), cap))

\* The per-message handler: log, then go on with the rest of the loop.
AfterMessageError_Abort(rest) == <<>>

AfterMessageError(rest) == rest

\* The loop over the identifiers: the messages appended to the result.
RECURSIVE ProcessIds(_, _)
ProcessIds(ids, sc) ==
    IF ids = <<>> THEN <<>>
    ELSE LET e_id == Head(ids)
             rest == ProcessIds(Tail(ids), sc)
         IN  CASE sc.outcome[e_id] = "ok" -> <<EmailMessage(e_id, sc.date[e_id])>> \o rest
               [] sc.outcome[e_id] = "raise" -> AfterMessageError(rest)
               [] OTHER -> rest

SkippedIds(ids, sc) == {i \in Range(ids) : sc.outcome[i] # "ok"}

MessageRaised(ids, sc) == \E i \in Range(ids) : sc.outcome[i] = "raise"

FetchResult(es, m, mt, at, sk, f, exc, esc) ==
    [emails |-> es, mail |-> m, matched |-> mt, attempted |-> at, skipped |-> sk,
     fault |-> f, exception |-> exc, escapes |-> esc]

\* mail.close(); mail.logout() at the end of the try block
CloseAfterLoop(sc) == IF sc.close THEN "closed" ELSE "open"

\* fetch_recent_emails_imap
fetch_recent_emails_imap(sc, cap) ==
    IF ~sc.connect THEN FetchResult(<<>>, "none", <<>>, <<>>, {}, "connect", TRUE, FALSE)
    ELSE IF ~sc.login THEN FetchResult(<<>>, "open", <<>>, <<>>, {}, "login", TRUE, FALSE)
    ELSE IF ~sc.select THEN FetchResult(<<>>, "open", <<>>, <<>>, {}, "select", TRUE, FALSE)
    ELSE IF sc.search = "raise" THEN FetchResult(<<>>, "open", <<>>, <<>>, {}, "search", TRUE, FALSE)
    ELSE IF sc.search = "NO" THEN FetchResult(<<>>, "open", <<>>, <<>>, {}, "status", FALSE, FALSE)
    ELSE LET email_ids == Ids(sc.n)
         IN  IF email_ids = <<>>
             THEN FetchResult(<<>>, "open", <<>>, <<>>, {}, "none", FALSE, FALSE)
             ELSE LET capped == CapIds(email_ids, cap)
                  IN  FetchResult(ProcessIds(capped, sc), CloseAfterLoop(sc), email_ids, capped,
                                  SkippedIds(capped, sc), "none",
                                  MessageRaised(capped, sc) \/ ~sc.close, FALSE)

\* fetch_recent_emails_api
fetch_recent_emails_api(sc) ==
    IF ~sc.service THEN FetchResult(<<>>, "none", <<>>, <<>>, {}, "service", TRUE, TRUE)
    ELSE IF ~sc.list THEN FetchResult(<<>>, "none", <<>>, <<>>, {}, "list", TRUE, TRUE)
    ELSE LET messages == Ids(sc.n)
         IN  FetchResult(ProcessIds(messages, sc), "none", messages, messages,
                         SkippedIds(messages, sc), "none", MessageRaised(messages, sc), FALSE)

\* fetch_emails: an exception of the variant becomes an empty list
fetch_emails(r) == IF r.escapes THEN [r EXCEPT !.emails = <<>>, !.escapes = FALSE] ELSE r

\* ---- email_fetcher.py: decoding and the processing of one message -------------
\* Byte strings are sequences over four byte values: 'a', the two bytes of
\* the UTF-8 form of U+00E9, and 0x81, which Windows-1252 does not define.
Bytes == {97, 195, 169, 129}

ByteStrings == UNION {[1..n -> Bytes] : n \in 0..MaxBytes}

\* U+FFFD, what errors='replace' puts in the place of an invalid byte.
ReplacementChar == 65533

Decoded(t) == [ok |-> TRUE, text |-> t, error |-> "none"]

DecodeError(e) == [ok |-> FALSE, text |-> <<>>, error |-> e]

IsContinuation(b) == b >= 128 /\ b <= 191

\* bytes.decode('utf-8') restricted to one- and two-byte forms; with
\* replace set an invalid byte becomes U+FFFD instead of an error.
RECURSIVE Utf8(_, _)
Utf8(b, replace) ==
    IF b = <<>> THEN Decoded(<<>>)
    ELSE IF b[1] < 128
         THEN LET r == Utf8(Tail(b), replace)
              IN  IF r.ok THEN Decoded(<<b[1]>> \o r.text) ELSE r
    ELSE IF b[1] >= 194 /\ b[1] <= 223 /\ Len(b) >= 2 /\ IsContinuation(b[2])
         THEN LET r == Utf8(SubSeq(b, 3, Len(b)), replace)
              IN  IF r.ok THEN Decoded(<<(b[1] - 192) * 64 + (b[2] - 128)>> \o r.text) ELSE r
    ELSE IF replace
         THEN LET r == Utf8(Tail(b), replace)
              IN  Decoded(<<ReplacementChar>> \o r.text)
         ELSE DecodeError("UnicodeDecodeError")

\* text_bytes.decode(encoding): "x-unknown" is no codec (LookupError),
\* "undefined" is the codec that fails every decode with UnicodeError;
\* empty bytes decode to the empty string before any codec is looked up.
Codec(encoding, b) ==
    CASE b = <<>> -> Decoded(<<>>)
      [] encoding = "utf-8" -> Utf8(b, FALSE)
      [] encoding \in {"latin-1", "iso-8859-1"} -> Decoded(b)
      [] encoding = "windows-1252" ->
            IF 129 \in Range(b) THEN DecodeError("UnicodeDecodeError") ELSE Decoded(b)
      [] encoding = "ascii" ->
            IF \E i \in 1..Len(b) : b[i] >= 128 THEN DecodeError("UnicodeDecodeError")
            ELSE Decoded(b)
      [] encoding = "undefined" -> DecodeError("UnicodeError")
      [] OTHER -> DecodeError("LookupError")

\* The charsets a part or an encoded word declares ("none": no charset).
Charsets == {"none", "ascii", "utf-8", "x-unknown", "undefined"}

\* encodings = [charset] if charset else []; encodings.extend([...])
Encodings(charset) ==
    (IF charset = "none" THEN <<>> ELSE <<charset>>)
    \o <<"utf-8", "latin-1", "iso-8859-1", "windows-1252">>

DecodeResult(r, t, enc, tr) == [raised |-> r, text |-> t, encoding |-> enc, tried |-> tr]

\* except (UnicodeDecodeError, LookupError): continue
Caught(error) == error \in {"UnicodeDecodeError", "LookupError"}

\* The loop over the encodings and the replace-mode decode after it.
RECURSIVE TryEncodings(_, _, _)
TryEncodings(b, encs, tried) ==
    IF encs = <<>>
    THEN DecodeResult(FALSE, Utf8(b, TRUE).text, "replace", tried)
    ELSE LET r == Codec(Head(encs), b)
             now == Append(tried, Head(encs))
         IN  IF r.ok THEN DecodeResult(FALSE, r.text, Head(encs), now)
             ELSE IF Caught(r.error) THEN TryEncodings(b, Tail(encs), now)
             ELSE DecodeResult(TRUE, <<>>, "none", now)

\* _decode_text
decode_text(is_str, text_bytes, charset) ==
    IF is_str THEN DecodeResult(FALSE, text_bytes, "str", <<>>)
    ELSE TryEncodings(text_bytes, Encodings(charset), <<>>)

\* The Subject header: absent, plain text, an encoded word decode_header
\* cannot decode (it raises HeaderParseError), or an encoded word with its
\* bytes and charset.
SubjectHeader(k, b, c) == [kind |-> k, bytes |-> b, charset |-> c]

SubjectHeaders ==
    {SubjectHeader("absent", <<>>, "none"), SubjectHeader("plain", <<>>, "none"),
     SubjectHeader("bad_word", <<>>, "none")}
    \cup {SubjectHeader("word", b, c) : b \in {<<97>>, <<195, 169>>, <<129>>},
                                          c \in {"utf-8", "x-unknown", "undefined"}}

\* One MIME part: an attachment, a text part whose get_payload raises, or a
\* text part with its payload bytes and charset.
Part(k, b, c) == [kind |-> k, bytes |-> b, charset |-> c]

Parts ==
    {Part("attachment", <<>>, "none"), Part("payload_raises", <<>>, "none")}
    \cup {Part("text", b, c) : b \in {<<97>>, <<129>>}, c \in {"none", "undefined"}}

RawMessage(sh, d, ps, snd) == [subject |-> sh, date_ok |-> d, parts |-> ps, sender_ok |-> snd]

RawMessages ==
    {RawMessage(sh, d, ps, snd) :
        sh \in SubjectHeaders, d \in BOOLEAN,
        ps \in UNION {[1..n -> Parts] : n \in 1..MaxParts}, snd \in BOOLEAN}

\* _extract_email_body: attachments are skipped, a part whose decoding
\* raises is logged and skipped, the text of the others is concatenated.
RECURSIVE extract_email_body(_)
extract_email_body(ps) ==
    IF ps = <<>> THEN <<>>
    ELSE LET part == Head(ps)
             rest == extract_email_body(Tail(ps))
             d == decode_text(FALSE, part.bytes, part.charset)
         IN  IF part.kind = "text" /\ ~d.raised THEN d.text \o rest ELSE rest

\* Extract and decode subject: raised is TRUE when decode_header or
\* _decode_text raises, which no handler around the subject catches.
DecodeSubject(sh) ==
    CASE sh.kind = "absent" -> [raised |-> FALSE, text |-> <<>>]
      [] sh.kind = "plain" -> [raised |-> FALSE, text |-> <<97>>]
      [] sh.kind = "bad_word" -> [raised |-> TRUE, text |-> <<>>]
      [] OTHER -> LET d == decode_text(FALSE, sh.bytes, sh.charset)
                  IN  [raised |-> d.raised, text |-> d.text]

\* try: parsedate_to_datetime(date_str) except: datetime.now(timezone.utc)
ParseDate(date_ok) == IF date_ok THEN "header" ELSE "now"

Normalized(ret, subj, d, body) == [returned |-> ret, subject |-> subj, date |-> d, body |-> body]

NotReturned == Normalized(FALSE, <<>>, "none", <<>>)

\* The body of the IMAP loop for one fetched message: the message is
\* appended unless a statement outside the inner handlers raises (the
\* subject decoding, or the validation of EmailMessage), which the
\* per-message handler logs before going on to the next message.
ProcessMessage(raw) ==
    LET subj == DecodeSubject(raw.subject)
    IN  IF subj.raised \/ ~raw.sender_ok THEN NotReturned
        ELSE Normalized(TRUE, subj.text, ParseDate(raw.date_ok), extract_email_body(raw.parts))

\* ---- email_summarizer.py ----------------------------------------------------
Priorities == {"High", "Medium", "Low"}

\* What the completion call does for one message: "error" (the call raises),
\* "text" (content that is not valid JSON), "value" (valid JSON that is not
\* an object), "object" (a JSON object holding the fields in `fields`, with
\* the given priority string when it has one).
Response(k, f, p) == [kind |-> k, fields |-> f, priority |-> p]

FieldNames == {"key_points", "action_items", "priority"}

PriorityStrings == Priorities \cup {"Urgent", "high"}

Responses ==
    {Response("error", {}, "none"), Response("text", {}, "none"), Response("value", {}, "none")}
    \cup {Response("object", f, "none") : f \in SUBSET {"key_points", "action_items"}}
    \cup {Response("object", f \cup {"priority"}, p) :
              f \in SUBSET {"key_points", "action_items"}, p \in PriorityStrings}

\* The responses the pipeline runs draw from.
PipelineResponses ==
    {Response("error", {}, "none"), Response("text", {}, "none"),
     Response("object", {"key_points", "action_items"}, "none")}
    \cup {Response("object", FieldNames, p) : p \in Priorities \cup {"Urgent"}}

\* summary_data.get("priority", "Low")
GetPriority_Medium(summary_data) ==
    IF "priority" \in summary_data.fields THEN summary_data.priority ELSE "Medium"

GetPriority(summary_data) ==
    IF "priority" \in summary_data.fields THEN summary_data.priority ELSE "Low"

GetList(summary_data, field) == IF field \in summary_data.fields THEN "resp" ELSE "empty"

\* The dict of the except json.JSONDecodeError branch.
FallbackData == [kind |-> "object", fields |-> FieldNames, priority |-> "Low"]

CallResult(r, s) == [raised |-> r, summary |-> s]

\* summarize_email
summarize_email(email, resp) ==
    IF resp.kind = "error" THEN CallResult(TRUE, NoSummary)
    ELSE IF resp.kind = "value" THEN CallResult(TRUE, NoSummary)
    ELSE IF resp.kind = "text"
         THEN CallResult(FALSE, EmailSummary(email.message_id, email.date,
                                             GetPriority(FallbackData), "failed", "empty"))
         ELSE CallResult(FALSE, EmailSummary(email.message_id, email.date, GetPriority(resp),
                                             GetList(resp, "key_points"),
                                             GetList(resp, "action_items")))

\* priority_order.get(x.priority, 3)
priority_order(p) ==
    CASE p = "High" -> 0 [] p = "Medium" -> 1 [] p = "Low" -> 2 [] OTHER -> 3

\* (rank, date) tuples compared as Python compares tuples
KeyLess(a, b) ==
    \/ priority_order(a.priority) < priority_order(b.priority)
    \/ /\ priority_order(a.priority) = priority_order(b.priority)
       /\ a.date < b.date

\* list.sort(key=..., reverse=True): descending by key, stable
RECURSIVE InsertDesc(_, _)
InsertDesc(sorted, x) ==
    IF sorted = <<>> THEN <<x>>
    ELSE IF KeyLess(Head(sorted), x) THEN <<x>> \o sorted
         ELSE <<Head(sorted)>> \o InsertDesc(Tail(sorted), x)

RECURSIVE SortSummaries(_)
SortSummaries(s) ==
    IF s = <<>> THEN <<>>
    ELSE InsertDesc(SortSummaries(SubSeq(s, 1, Len(s) - 1)), s[Len(s)])

\* The except branch of the loop: print, continue with the other emails.
AfterSummaryError_Abort(rest) == <<>>

AfterSummaryError(rest) == rest

\* The loop of summarize_emails: the summaries appended, in message order.
RECURSIVE CollectSummaries(_, _, _)
CollectSummaries(es, resps, i) ==
    IF i > Len(es) THEN <<>>
    ELSE LET r == summarize_email(es[i], resps[i])
             rest == CollectSummaries(es, resps, i + 1)
         IN  IF r.raised THEN AfterSummaryError(rest) ELSE <<r.summary>> \o rest

FailedIds(es, resps) ==
    {es[i].message_id : i \in {j \in 1..Len(es) : summarize_email(es[j], resps[j]).raised}}

\* for email in emails: summary = self.summarize_email(email)
InvokedIds(es) == [i \in 1..Len(es) |-> es[i].message_id]

\* summarize_emails
summarize_emails(es, resps) == SortSummaries(CollectSummaries(es, resps, 1))

\* ---- email_composer.py --------------------------------------------------------
CountHigh_NotLow(s) == Cardinality({i \in 1..Len(s) : s[i].priority # "Low"})

CountHigh(s) == Cardinality({i \in 1..Len(s) : s[i].priority = "High"})

Reverse(s) == [i \in 1..Len(s) |-> s[Len(s) + 1 - i]]

create_digest_report_Reordered(s, p) ==
    [period |-> p, email_count |-> Len(s), high_priority_count |-> CountHigh(s),
     summaries |-> Reverse(s), built |-> TRUE]

\* create_digest_report
create_digest_report(s, p) ==
    [period |-> p, email_count |-> Len(s), high_priority_count |-> CountHigh(s),
     summaries |-> s, built |-> TRUE]

\* [s for s in digest.summaries if s.priority == p]
Section(d, p) == SelectSeq(d.summaries, LAMBDA s : s.priority = p)

\* format_html_email: the three sections, each rendered in list order
format_html_email(d) ==
    [high |-> Section(d, "High"), medium |-> Section(d, "Medium"),
     low |-> Section(d, "Low"), built |-> TRUE]

\* ---- main.py: one run of process_morning_digest / process_evening_digest ----
Periods == {"morning", "evening"}

\* invoked: the message ids summarize_email was invoked with, in call order.
NoCalls == [summarize |-> 0, aggregate |-> 0, deliver |-> 0, invoked |-> <<>>]

NoHtml == [high |-> <<>>, medium |-> <<>>, low |-> <<>>, built |-> FALSE]

NoDec == [is_str |-> FALSE, bytes |-> <<>>, charset |-> "none", done |-> FALSE,
          result |-> DecodeResult(FALSE, <<>>, "none", <<>>)]

NoNorm == [raw |-> RawMessage(SubjectHeader("absent", <<>>, "none"), TRUE, <<>>, TRUE),
           done |-> FALSE, result |-> NotReturned]

NoCall == [email |-> EmailMessage(0, 0), resp |-> Response("none", {}, "none"),
           done |-> FALSE, result |-> CallResult(FALSE, NoSummary)]

\* The locals of a run before it starts.
Fresh ==
    /\ period = "none"
    /\ emails = <<>>
    /\ summaries = <<>>
    /\ digest = NoDigest
    /\ success = "none"
    /\ mail = "none"
    /\ matched = <<>>
    /\ attempted = <<>>
    /\ skipped = {}
    /\ fault = "none"
    /\ failed = {}
    /\ calls = NoCalls
    /\ raised = {}
    /\ escaped = "none"
    /\ html = NoHtml

\* EmailDigestApp.__init__: the configuration is loaded once.
Init ==
    /\ use_api \in BOOLEAN
    /\ max_emails_per_digest \in Caps
    /\ pc = "Idle"
    /\ Fresh
    /\ propagated = FALSE
    /\ call = NoCall
    /\ dec = NoDec
    /\ norm = NoNorm

\* if not emails: return
AfterFetch_NoGuard(es) == "Summarizing"

AfterFetch(es) == IF es = <<>> THEN "Done" ELSE "Summarizing"

\* After summarize_emails the run goes on to the digest, whatever the list.
AfterSummarize_SkipEmpty(s) == IF s = <<>> THEN "Done" ELSE "Aggregating"

AfterSummarize(s) == "Aggregating"

\* if success: logger.info(...) else: logger.error(...); then the run ends.
AfterDelivery_FailRun(ok) == IF ok THEN "Done" ELSE "Failed"

AfterDelivery(ok) == "Done"

\* except Exception as e: logger.error(...)
OnException_Reraise == [pc |-> "Failed", propagated |-> TRUE]

OnException == [pc |-> "Failed", propagated |-> FALSE]

\* The scheduler (or run_once) calls one of the two entry points.
Trigger(p) ==
    /\ pc = "Idle"
    /\ pc' = "Fetching"
    /\ period' = p
    /\ UNCHANGED <<use_api, max_emails_per_digest, emails, summaries, digest, success,
                   mail, matched, attempted, skipped, fault, failed, calls, raised,
                   escaped, propagated, call, html, dec, norm>>

FetchOutcomes ==
    IF use_api
    THEN {fetch_emails(fetch_recent_emails_api(sc)) : sc \in ApiScenarios}
    ELSE {fetch_emails(fetch_recent_emails_imap(sc, max_emails_per_digest)) :
              sc \in ImapScenarios}

\* emails = self.fetcher.fetch_emails(cutoff_hours), then the emptiness test
Fetch ==
    /\ pc = "Fetching"
    /\ \E r \in FetchOutcomes :
          /\ emails' = r.emails
          /\ mail' = r.mail
          /\ matched' = r.matched
          /\ attempted' = r.attempted
          /\ skipped' = r.skipped
          /\ fault' = r.fault
          /\ raised' = IF r.exception THEN raised \cup {"fetch"} ELSE raised
          /\ IF r.escapes
             THEN /\ pc' = OnException.pc
                  /\ propagated' = OnException.propagated
                  /\ escaped' = "fetch"
             ELSE /\ pc' = AfterFetch(r.emails)
                  /\ UNCHANGED <<propagated, escaped>>
    /\ UNCHANGED <<use_api, max_emails_per_digest, period, summaries, digest, success,
                   failed, calls, call, html, dec, norm>>

\* summaries = self.summarizer.summarize_emails(emails); sort_ok is FALSE
\* when the sort after the loop, which no handler of summarize_emails
\* covers, raises.
Summarize ==
    /\ pc = "Summarizing"
    /\ \E resps \in [1..Len(emails) -> PipelineResponses], sort_ok \in BOOLEAN :
          /\ calls' = [calls EXCEPT !.summarize = @ + 1,
                                    !.invoked = @ \o InvokedIds(emails)]
          /\ failed' = FailedIds(emails, resps)
          /\ raised' = IF FailedIds(emails, resps) # {} \/ ~sort_ok
                       THEN raised \cup {"summarize"} ELSE raised
          /\ IF sort_ok
             THEN /\ summaries' = summarize_emails(emails, resps)
                  /\ pc' = AfterSummarize(summarize_emails(emails, resps))
                  /\ UNCHANGED <<propagated, escaped>>
             ELSE /\ pc' = OnException.pc
                  /\ propagated' = OnException.propagated
                  /\ escaped' = "summarize"
                  /\ UNCHANGED summaries
    /\ UNCHANGED <<use_api, max_emails_per_digest, period, emails, digest, success,
                   mail, matched, attempted, skipped, fault, call, html, dec, norm>>

\* digest = self.composer.create_digest_report(summaries, period); built_ok
\* is FALSE when the construction of the report raises.
Aggregate ==
    /\ pc = "Aggregating"
    /\ \E built_ok \in BOOLEAN :
          /\ calls' = [calls EXCEPT !.aggregate = @ + 1]
          /\ IF built_ok
             THEN /\ digest' = create_digest_report(summaries, period)
                  /\ pc' = "Delivering"
                  /\ UNCHANGED <<raised, propagated, escaped>>
             ELSE /\ raised' = raised \cup {"aggregate"}
                  /\ pc' = OnException.pc
                  /\ propagated' = OnException.propagated
                  /\ escaped' = "aggregate"
                  /\ UNCHANGED digest
    /\ UNCHANGED <<use_api, max_emails_per_digest, period, emails, summaries, success,
                   mail, matched, attempted, skipped, fault, failed, call, html, dec, norm>>

\* success = self.composer.send_email(digest): "sent" (True), "smtp_error"
\* (an exception inside send_email's try block, False), "raise" (an
\* exception while the message is built, before the try block).  The HTML
\* body is rendered by format_html_email before the try block.
Deliver ==
    /\ pc = "Delivering"
    /\ \E outcome \in {"sent", "smtp_error", "raise"} :
          /\ calls' = [calls EXCEPT !.deliver = @ + 1]
          /\ raised' = IF outcome = "sent" THEN raised ELSE raised \cup {"deliver"}
          /\ IF outcome = "raise"
             THEN /\ pc' = OnException.pc
                  /\ propagated' = OnException.propagated
                  /\ escaped' = "deliver"
                  /\ UNCHANGED <<success, html>>
             ELSE /\ success' = (outcome = "sent")
                  /\ html' = format_html_email(digest)
                  /\ pc' = AfterDelivery(outcome = "sent")
                  /\ UNCHANGED <<propagated, escaped>>
    /\ UNCHANGED <<use_api, max_emails_per_digest, period, emails, summaries, digest,
                   mail, matched, attempted, skipped, fault, failed, call, dec, norm>>

\* The entry point has returned; its locals are gone and the scheduler
\* waits for the next trigger.
NextRun ==
    /\ pc \in {"Done", "Failed"}
    /\ pc' = "Idle"
    /\ period' = "none"
    /\ emails' = <<>>
    /\ summaries' = <<>>
    /\ digest' = NoDigest
    /\ success' = "none"
    /\ mail' = "none"
    /\ matched' = <<>>
    /\ attempted' = <<>>
    /\ skipped' = {}
    /\ fault' = "none"
    /\ failed' = {}
    /\ calls' = NoCalls
    /\ raised' = {}
    /\ escaped' = "none"
    /\ html' = NoHtml
    /\ UNCHANGED <<use_api, max_emails_per_digest, propagated, call, dec, norm>>

Next ==
    \/ \E p \in Periods : Trigger(p)
    \/ Fetch
    \/ Summarize
    \/ Aggregate
    \/ Deliver
    \/ NextRun

Spec == Init /\ [][Next]_vars

\* ---- summarize_email on its own: one email, one response ----------------------
InitUnit ==
    /\ use_api \in BOOLEAN
    /\ max_emails_per_digest \in Caps
    /\ pc = "Idle"
    /\ Fresh
    /\ propagated = FALSE
    /\ \E id \in 1..MaxMatched, d \in Dates, r \in Responses :
          call = [email |-> EmailMessage(id, d), resp |-> r, done |-> FALSE,
                  result |-> CallResult(FALSE, NoSummary)]
    /\ dec = NoDec
    /\ norm = NoNorm

SummarizeEmailCall ==
    /\ ~call.done
    /\ call' = [call EXCEPT !.done = TRUE, !.result = summarize_email(call.email, call.resp)]
    /\ UNCHANGED <<use_api, max_emails_per_digest, pc, period, emails, summaries,
                   digest, success, mail, matched, attempted, skipped, fault, failed,
                   calls, raised, escaped, propagated, html, dec, norm>>

NextUnit == SummarizeEmailCall

SpecUnit == InitUnit /\ [][NextUnit]_vars

\* ---- _decode_text on its own: one input, one declared charset ------------------
InitDecode ==
    /\ use_api = FALSE
    /\ max_emails_per_digest = DefaultCap
    /\ pc = "Idle"
    /\ Fresh
    /\ propagated = FALSE
    /\ call = NoCall
    /\ norm = NoNorm
    /\ \E s \in BOOLEAN, b \in ByteStrings, c \in Charsets :
          dec = [is_str |-> s, bytes |-> b, charset |-> c, done |-> FALSE,
                 result |-> DecodeResult(FALSE, <<>>, "none", <<>>)]

DecodeTextCall ==
    /\ ~dec.done
    /\ dec' = [dec EXCEPT !.done = TRUE,
                          !.result = decode_text(dec.is_str, dec.bytes, dec.charset)]
    /\ UNCHANGED <<use_api, max_emails_per_digest, pc, period, emails, summaries,
                   digest, success, mail, matched, attempted, skipped, fault, failed,
                   calls, raised, escaped, propagated, call, html, norm>>

NextDecode == DecodeTextCall

SpecDecode == InitDecode /\ [][NextDecode]_vars

\* ---- one message of the IMAP loop on its own --------------------------------------
InitNormalize ==
    /\ use_api = FALSE
    /\ max_emails_per_digest = DefaultCap
    /\ pc = "Idle"
    /\ Fresh
    /\ propagated = FALSE
    /\ call = NoCall
    /\ dec = NoDec
    /\ \E raw \in RawMessages : norm = [raw |-> raw, done |-> FALSE, result |-> NotReturned]

ProcessMessageCall ==
    /\ ~norm.done
    /\ norm' = [norm EXCEPT !.done = TRUE, !.result = ProcessMessage(norm.raw)]
    /\ UNCHANGED <<use_api, max_emails_per_digest, pc, period, emails, summaries,
                   digest, success, mail, matched, attempted, skipped, fault, failed,
                   calls, raised, escaped, propagated, call, html, dec>>

NextNormalize == ProcessMessageCall

SpecNormalize == InitNormalize /\ [][NextNormalize]_vars

\* ---- properties -----------------------------------------------------------------
\* fetch_emails has returned in the current run.
Fetched == pc \notin {"Idle", "Fetching"}

\* summarize_emails has returned its list in the current run.
Summarized == calls.summarize > 0 /\ escaped # "summarize"

\* C1: the list summarize_emails returns is ordered most urgent first: High
\* before Medium before Low, and within one priority the newer date first.
C1_MostUrgentFirst ==
    Summarized =>
        \A i, j \in 1..Len(summaries) :
            (i < j /\ summaries[i].priority \in Priorities /\ summaries[j].priority \in Priorities)
            => /\ priority_order(summaries[i].priority) <= priority_order(summaries[j].priority)
               /\ summaries[i].priority = summaries[j].priority
                  => summaries[i].date >= summaries[j].date

\* C2: once the IMAP connection has been opened it is closed and logged out
\* before fetch_recent_emails_imap returns, on every exit path.
C2_ConnectionReleased == (Fetched /\ ~use_api) => mail # "open"

\* C3: every summary summarize_email produces has a priority among High,
\* Medium, Low; a priority string outside the set is turned into Low.
C3_PriorityEnumerated ==
    (call.done /\ ~call.result.raised) => call.result.summary.priority \in Priorities

\* A response that is not valid JSON, or a JSON object without one of the
\* three fields.
Malformed(resp) ==
    \/ resp.kind = "text"
    \/ resp.kind = "object" /\ resp.fields # FieldNames

C5_FailedExcluded ==
    Summarized =>
        /\ Len(summaries) = Len(emails) - Cardinality(failed)
        /\ {summaries[i].message_id : i \in 1..Len(summaries)}
           = {emails[i].message_id : i \in 1..Len(emails)} \ failed

C5_Witness ==
    /\ Summarized
    /\ Len(emails) = 2
    /\ failed = {emails[1].message_id}
    /\ Len(summaries) = 1
    /\ summaries[1].message_id = emails[2].message_id

\* C6: in every digest report email_count is the length of its summaries
\* list and high_priority_count the number of its summaries with priority
\* High.
C6_CountsMatch ==
    digest.built =>
        /\ digest.email_count = Len(digest.summaries)
        /\ digest.high_priority_count
           = Cardinality({i \in 1..Len(digest.summaries) : digest.summaries[i].priority = "High"})

C6_Witness ==
    /\ digest.built
    /\ digest.email_count = 2
    /\ digest.high_priority_count = 1
    /\ \E i \in 1..2 : digest.summaries[i].priority = "Medium"

\* C7: a run whose fetch returned no message is in Done, and summarization,
\* aggregation and delivery have not been invoked in it.
C7_EmptyFetchEndsDone ==
    (Fetched /\ emails = <<>>)
    => /\ pc = "Done"
       /\ calls = NoCalls
       /\ ~digest.built
       /\ success = "none"

C7_Witness ==
    /\ pc = "Done"
    /\ period = "evening"
    /\ emails = <<>>
    /\ calls = NoCalls

\* C8 as stated: a run in which any phase raised an exception ends in Failed,
\* no exception leaves the entry point, and the next run starts from Idle
\* with nothing left of the failed one.
C8_AnyExceptionFails ==
    /\ (pc \in {"Done", "Failed"} /\ raised # {}) => pc = "Failed"
    /\ ~propagated
    /\ pc = "Idle" => Fresh

\* C8 as amended: a run is in Failed exactly when an exception reached the
\* handler of the entry point (from the sort of summarize_emails, from
\* create_digest_report or from the message building of send_email); no
\* exception leaves the entry point; the next run starts from Idle with
\* nothing left of the failed one.  Exceptions absorbed inside fetch_emails,
\* the per-message handler of summarize_emails or the SMTP block of
\* send_email do not fail the run.
C8_EscapedExceptionFails ==
    /\ (escaped # "none") <=> (pc = "Failed")
    /\ escaped # "none" => escaped \in raised
    /\ ~propagated
    /\ pc = "Idle" => Fresh

C8_Witness ==
    /\ pc = "Failed"
    /\ escaped = "deliver"
    /\ digest.built
    /\ ~propagated

\* C9: when the IMAP search matches M identifiers and the cap is N with
\* M > N >= 1, the identifiers fetched are the last N of the search result;
\* when M <= N all M are fetched.
C9_MostRecentKept ==
    (Fetched /\ ~use_api /\ matched # <<>>)
    => LET M == Len(matched)
           N == max_emails_per_digest
       IN  /\ (M > N /\ N >= 1) => attempted = SubSeq(matched, M - N + 1, M)
           /\ M <= N => attempted = matched

C9_Witness ==
    /\ Fetched
    /\ ~use_api
    /\ Len(matched) = 2
    /\ max_emails_per_digest = 1
    /\ attempted = <<matched[2]>>

\* C10: a total fetch failure (connect, login, select, search, a status other
\* than OK, the API service or listing) makes fetch_emails return an empty
\* list without raising, and a per-message failure skips only that message:
\* the messages returned are the attempted ones that did not fail, in order.
C10_FetchFailuresContained ==
    Fetched =>
        /\ fault # "none" => emails = <<>>
        /\ escaped # "fetch"
        /\ [i \in 1..Len(emails) |-> emails[i].message_id]
           = SelectSeq(attempted, LAMBDA id : id \notin skipped)

C10_Witness ==
    /\ Fetched
    /\ Len(attempted) = 2
    /\ skipped = {attempted[1]}
    /\ "fetch" \in raised
    /\ Len(emails) = 1
    /\ emails[1].message_id = attempted[2]

\* C11: a run that fetched at least one message and in which no exception
\* reached the handler of the entry point goes from Summarizing to
\* Aggregating and to delivery, however many summarizations failed; when all
\* of them failed it still builds a digest with both counts 0 and hands it
\* to send_email.
C11_ProceedsToDelivery ==
    /\ (Fetched /\ emails # <<>> /\ escaped = "none")
       => pc \in {"Summarizing", "Aggregating", "Delivering", "Done"}
    /\ (emails # <<>> /\ pc \in {"Delivering", "Done"})
       => /\ calls.summarize = 1
          /\ calls.aggregate = 1
          /\ digest.built
          /\ Cardinality(failed) = Len(emails)
             => digest.email_count = 0 /\ digest.high_priority_count = 0
    /\ (emails # <<>> /\ pc = "Done") => calls.deliver = 1

C11_Witness ==
    /\ pc = "Done"
    /\ Len(emails) = 2
    /\ Cardinality(failed) = 2
    /\ digest.built
    /\ digest.email_count = 0
    /\ digest.high_priority_count = 0
    /\ calls.deliver = 1

\* C12: within one run each stage is invoked at most once, summarize_email
\* is invoked at most once per fetched message, and a run whose send_email
\* returned (True or False) is in Done after that single attempt.
C12_NoRetry ==
    /\ calls.summarize <= 1
    /\ calls.aggregate <= 1
    /\ calls.deliver <= 1
    /\ \A i, j \in 1..Len(calls.invoked) : i # j => calls.invoked[i] # calls.invoked[j]
    /\ Range(calls.invoked) \subseteq {emails[i].message_id : i \in 1..Len(emails)}
    /\ (calls.deliver > 0 /\ escaped = "none") => pc = "Done"

C12_Witness ==
    /\ pc = "Done"
    /\ calls.deliver = 1
    /\ success = FALSE
    /\ Len(calls.invoked) = 2
    /\ failed # {}

\* C13: the High, Medium and Low sections rendered for a digest partition
\* its summaries: every summary is in exactly one section, and each section
\* keeps the order of the digest's list.
C13_SectionsPartition ==
    html.built =>
        /\ Len(html.high) + Len(html.medium) + Len(html.low) = Len(digest.summaries)
        /\ \A i \in 1..Len(digest.summaries) :
              Cardinality({sec \in {"high", "medium", "low"} :
                               \E k \in 1..Len(html[sec]) : html[sec][k] = digest.summaries[i]}) = 1
        /\ \A p \in Priorities :
              LET sec == IF p = "High" THEN html.high
                         ELSE IF p = "Medium" THEN html.medium ELSE html.low
              IN  sec = SelectSeq(digest.summaries, LAMBDA x : x.priority = p)

\* C16: the summaries list of the digest is the list summarize_emails
\* returned, element for element.
C16_OrderKept == digest.built => digest.summaries = summaries

C16_Witness ==
    /\ digest.built
    /\ Len(digest.summaries) = 2
    /\ digest.summaries[1] # digest.summaries[2]
    /\ digest.summaries = summaries

\* C17: for every cap max_emails_per_digest >= 0, 0 included, the IMAP fetch
\* attempts to fetch and returns at most max_emails_per_digest messages.
C17_CapRespected ==
    (Fetched /\ ~use_api)
    => /\ Len(attempted) <= max_emails_per_digest
       /\ Len(emails) <= max_emails_per_digest

\* C14: processing a fetched message never drops it because of a decode
\* error inside it: whatever the subject's encoded word, the body parts and
\* the date header are, a message whose fields are otherwise valid is
\* returned by the fetch, with the current time as its date when the date
\* header does not parse and with the parts that fail to decode left out.
C14_DecodeErrorKeepsMessage ==
    (norm.done /\ norm.raw.sender_ok)
        => /\ norm.result.returned
           /\ norm.result.date = ParseDate(norm.raw.date_ok)
           /\ norm.result.body = extract_email_body(norm.raw.parts)

\* C15: _decode_text tries the declared charset, UTF-8, Latin-1, ISO-8859-1
\* and Windows-1252 in that order and returns what the first successful one
\* gives, so the output has no substitution character when some candidate
\* decodes the bytes; substitution happens only when every candidate fails;
\* and it never raises, whatever the bytes and the declared charset.
C15_FirstSuccessNeverRaises ==
    (dec.done /\ ~dec.is_str)
        => LET encs == Encodings(dec.charset)
               r == dec.result
               n == Len(r.tried)
           IN  /\ ~r.raised
               /\ n <= Len(encs) /\ r.tried = TakeFirst(encs, n)
               /\ \A i \in 1..(n - 1) : ~Codec(encs[i], dec.bytes).ok
               /\ r.encoding # "replace"
                     => /\ n >= 1 /\ r.encoding = encs[n]
                        /\ Codec(encs[n], dec.bytes).ok
                        /\ r.text = Codec(encs[n], dec.bytes).text
               /\ r.encoding = "replace"
                     => /\ n = Len(encs)
                        /\ \A i \in 1..n : ~Codec(encs[i], dec.bytes).ok
               /\ (\E i \in 1..Len(encs) : Codec(encs[i], dec.bytes).ok)
                     => ReplacementChar \notin Range(r.text)

====
